---- MODULE Spec2Model ----
(***************************************************************************)
(* A model of isabelle-markup: the annotation-tree passes of src/src/ir.rs *)
(* (trim_empty, merge_tooltips, split_lines) and the incremental emitter   *)
(* of src/src/output.rs (HTMLOutput).                                      *)
(*                                                                         *)
(* Strings are sequences of one-character strings; "\n" is the newline.    *)
(***************************************************************************)
EXTENDS Integers, Sequences, FiniteSets, TLC

VARIABLES
    \* ir.rs: the forest the passes are called on, the forest before the last
    \* call, the calls made so far, the flag merge_tooltips returned and the
    \* result of split_lines
    tree, before, hist, ret, lines,
    \* output.rs: the fields of HTMLOutput, what was written to the writer,
    \* whether a call has panicked, and the calls made so far
    writer, tag_stack, tooltip, tooltip_depth, root, status, trace,
    \* yxml/src/lib.rs: the forest a text was written from, the text given to
    \* parse, and what parse returned
    source, yxml, result

ir_vars == <<tree, before, hist, ret, lines>>
out_vars == <<writer, tag_stack, tooltip, tooltip_depth, root, status, trace>>
parse_vars == <<source, yxml, result>>
vars == <<ir_vars, out_vars, parse_vars>>

(***************************************************************************)
(* Bounds of the model.                                                    *)
(***************************************************************************)
\* Largest number of nodes of an input forest.
MaxNodes == 5
\* Largest number of trim_empty / merge_tooltips calls made on one forest.
MaxCalls == 2
\* Largest number of calls made on one HTMLOutput.
MaxOps == 5

NL == "\n"

(***************************************************************************)
(* TagTree (ir.rs:26-40).  A node is a record; type is "Text",             *)
(* "SpanClass" or "Tooltip" (the latter two are TagTree::Tag with the      *)
(* corresponding Tag), s is the text, the class or the caption.            *)
(***************************************************************************)
Text(s) == [type |-> "Text", s |-> s, children |-> <<>>]
SpanClass(s, children) == [type |-> "SpanClass", s |-> s, children |-> children]
Tooltip(s, children) == [type |-> "Tooltip", s |-> s, children |-> children]

\* Option<&mut String>
None == [some |-> FALSE, val |-> <<>>]
Some(s) == [some |-> TRUE, val |-> s]

(***************************************************************************)
(* The inputs: every forest of at most MaxNodes nodes over these leaves    *)
(* and tags.                                                               *)
(***************************************************************************)
Texts == {<<>>, <<"x", NL, "y">>}
Classes == {<<"c">>}
Captions == {<<"A">>, <<"B">>}

TagNodes(children) ==
    {SpanClass(c, children) : c \in Classes}
    \cup {Tooltip(c, children) : c \in Captions}

\* <<forests of 0 nodes, ..., forests of n nodes>>
RECURSIVE ForestsBySize(_)
ForestsBySize(n) ==
    IF n = 0 THEN <<{<<>>}>>
    ELSE LET bySize == ForestsBySize(n - 1)
             TreesOfSize(k) ==
                 (IF k = 1 THEN {Text(s) : s \in Texts} ELSE {})
                 \cup UNION {TagNodes(ch) : ch \in bySize[k]}
         IN Append(bySize,
                   UNION {{<<t>> \o f : t \in TreesOfSize(k),
                                        f \in bySize[n - k + 1]} : k \in 1..n})

\* The forests of fewer than MaxNodes nodes, by size.
SmallForests == ForestsBySize(MaxNodes - 1)

\* f is a forest of at most MaxNodes nodes: a first tree and the rest.
IsInputForest(f) ==
    \/ f = <<>>
    \/ \E n \in 1..MaxNodes : \E k \in 1..n : \E rest \in SmallForests[n - k + 1] :
          \/ k = 1 /\ \E s \in Texts : f = <<Text(s)>> \o rest
          \/ \E ch \in SmallForests[k] : \E t \in TagNodes(ch) : f = <<t>> \o rest

(***************************************************************************)
(* Helpers on sequences.                                                   *)
(***************************************************************************)
RECURSIVE Concat(_)
Concat(ss) == IF ss = <<>> THEN <<>> ELSE Head(ss) \o Concat(Tail(ss))

(***************************************************************************)
(* TagTree::is_empty and trim_empty.                                       *)
(***************************************************************************)
is_empty(node) ==
    IF node.type = "Text" THEN node.s = <<>> ELSE node.children = <<>>

\* A trim_empty that does not recurse into the children.
trim_empty_shallow(t) == SelectSeq(t, LAMBDA node : ~is_empty(node))

RECURSIVE trim_empty(_)
trim_empty(t) ==
    LET trimmed == [i \in 1..Len(t) |->
                      IF t[i].type = "Text" THEN t[i]
                      ELSE [t[i] EXCEPT !.children = trim_empty(t[i].children)]]
    IN SelectSeq(trimmed, LAMBDA node : ~is_empty(node))

(***************************************************************************)
(* merge_tooltips.  The result is the forest after the call, the           *)
(* accumulator after the call and the returned flag.                       *)
(***************************************************************************)
\* The inner caption put before the outer one.
push_caption_front(parent_tooltip, s) == s \o <<NL>> \o parent_tooltip

\* parent_tooltip.push('\n'); parent_tooltip.push_str(&s)
push_caption(parent_tooltip, s) == parent_tooltip \o <<NL>> \o s

\* A scan that never drops a Tooltip.
scan_tooltip_kept(node, has_tooltips) == <<node>>

\* A scan that drops the Tooltips it should keep and keeps the others.
scan_tooltip_inverted(node, has_tooltips) ==
    IF has_tooltips THEN <<node>> ELSE node.children

\* What the scan leaves in place of a Tooltip node once its children are merged.
scan_tooltip(node, has_tooltips) ==
    IF has_tooltips THEN node.children ELSE <<node>>

RECURSIVE merge_tooltips(_, _)
RECURSIVE scan(_)
\* A scan whose flag forgets the Tooltips found under a SpanClass.
scan_flag_shallow(t) ==
    IF t = <<>> THEN [tree |-> <<>>, ret |-> FALSE]
    ELSE
      LET node == Head(t)
          rest == scan(Tail(t))
      IN IF node.type = "Text"
         THEN [tree |-> <<node>> \o rest.tree, ret |-> rest.ret]
         ELSE
           LET own == IF node.type = "Tooltip" THEN Some(node.s) ELSE None
               r == merge_tooltips(node.children, own)
               merged == [node EXCEPT !.children = r.tree,
                                      !.s = IF node.type = "Tooltip"
                                            THEN r.parent.val ELSE @]
           IN IF node.type = "Tooltip"
              THEN [tree |-> scan_tooltip(merged, r.ret) \o rest.tree,
                    ret |-> TRUE]
              ELSE [tree |-> <<merged>> \o rest.tree,
                    ret |-> rest.ret]

scan(t) ==
    IF t = <<>> THEN [tree |-> <<>>, ret |-> FALSE]
    ELSE
      LET node == Head(t)
          rest == scan(Tail(t))
      IN IF node.type = "Text"
         THEN [tree |-> <<node>> \o rest.tree, ret |-> rest.ret]
         ELSE
           LET own == IF node.type = "Tooltip" THEN Some(node.s) ELSE None
               r == merge_tooltips(node.children, own)
               merged == [node EXCEPT !.children = r.tree,
                                      !.s = IF node.type = "Tooltip"
                                            THEN r.parent.val ELSE @]
           IN IF node.type = "Tooltip"
              THEN [tree |-> scan_tooltip(merged, r.ret) \o rest.tree,
                    ret |-> TRUE]
              ELSE [tree |-> <<merged>> \o rest.tree,
                    ret |-> r.ret \/ rest.ret]

merge_tooltips(t, parent_tooltip) ==
    IF parent_tooltip.some /\ Len(t) = 1
    THEN
      CASE t[1].type = "SpanClass" ->
             LET r == merge_tooltips(t[1].children, parent_tooltip)
             IN [tree |-> <<[t[1] EXCEPT !.children = r.tree]>>,
                 parent |-> r.parent, ret |-> r.ret]
        [] t[1].type = "Tooltip" ->
             merge_tooltips(t[1].children,
                            Some(push_caption(parent_tooltip.val, t[1].s)))
        [] OTHER -> [tree |-> t, parent |-> parent_tooltip, ret |-> FALSE]
    ELSE
      LET r == scan(t)
      IN [tree |-> r.tree, parent |-> parent_tooltip, ret |-> r.ret]

(***************************************************************************)
(* split_lines.                                                            *)
(***************************************************************************)
\* str::split('\n'): the pieces between the newlines, empty ones included.
RECURSIVE split(_)
split(s) ==
    IF \A i \in 1..Len(s) : s[i] # NL THEN <<s>>
    ELSE LET i == CHOOSE j \in 1..Len(s) :
                    s[j] = NL /\ \A k \in 1..(j - 1) : s[k] # NL
         IN <<SubSeq(s, 1, i - 1)>> \o split(SubSeq(s, i + 1, Len(s)))

RECURSIVE split_lines(_)
RECURSIVE node_split_lines(_)
\* A Tag that is not replicated: one node holding the children of every line.
node_split_lines_once(node) ==
    IF node.type = "Text"
    THEN LET pieces == split(node.s)
         IN [i \in 1..Len(pieces) |-> Text(pieces[i])]
    ELSE <<[node EXCEPT !.children = Concat(split_lines(node.children))]>>

\* TagTree::split_lines
node_split_lines(node) ==
    IF node.type = "Text"
    THEN LET pieces == split(node.s)
         IN [i \in 1..Len(pieces) |-> Text(pieces[i])]
    ELSE LET ls == split_lines(node.children)
         IN [i \in 1..Len(ls) |-> [node EXCEPT !.children = ls[i]]]

\* A loop that ends the line after the last line of a child too.
push_child_lines_all(acc, child_lines) ==
    [lines |-> acc.lines
               \o <<Append(acc.new_children, child_lines[1])>>
               \o [i \in 1..(Len(child_lines) - 1) |-> <<child_lines[i + 1]>>],
     new_children |-> <<>>]

\* One round of the outer loop: the lines of one child are appended.
push_child_lines(acc, child_lines) ==
    LET last_i == Len(child_lines)
    IN IF last_i = 1
       THEN [lines |-> acc.lines,
             new_children |-> Append(acc.new_children, child_lines[1])]
       ELSE [lines |-> acc.lines
                       \o <<Append(acc.new_children, child_lines[1])>>
                       \o [i \in 1..(last_i - 2) |-> <<child_lines[i + 1]>>],
             new_children |-> <<child_lines[last_i]>>]

RECURSIVE split_loop(_, _)
split_loop(input, acc) ==
    IF input = <<>> THEN acc
    ELSE split_loop(Tail(input),
                    push_child_lines(acc, node_split_lines(Head(input))))

split_lines(input) ==
    LET acc == split_loop(input, [lines |-> <<>>, new_children |-> <<>>])
    IN Append(acc.lines, acc.new_children)

(***************************************************************************)
(* HTMLOutput (output.rs).  What is written is a sequence of tokens:       *)
(*   open s     <span class="s">                                           *)
(*   close      </span>                                                    *)
(*   text s     render_symbols(s, _, true)                                 *)
(*   plain s    render_symbols(s, _, false)                                *)
(*   raw s      s written as it is                                         *)
(*   code_open  <code>        code_close  </code>                          *)
(*   preamble / epilogue: the document boilerplate around the lines.       *)
(* Every write to the writer succeeds (no io::Error); a panic ends the     *)
(* use of the HTMLOutput.                                                  *)
(***************************************************************************)
Tok(k, s) == [k |-> k, s |-> s]

TooltipNone == [state |-> "None", buf |-> <<>>]
Pending(buf) == [state |-> "Pending", buf |-> buf]
Emitted == [state |-> "Emitted", buf |-> <<>>]

\* Tag::open, Tag::close
tag_open(tag) == <<Tok("open", tag)>>
tag_close(tag) == <<Tok("close", <<>>)>>

RECURSIVE Reverse(_)
Reverse(q) == IF q = <<>> THEN <<>> ELSE Append(Reverse(Tail(q)), Head(q))

\* The HTMLOutput as one value.
Self == [writer |-> writer, tag_stack |-> tag_stack, tooltip |-> tooltip,
         tooltip_depth |-> tooltip_depth, root |-> root, status |-> status]

Panic(o) == [o EXCEPT !.status = "panicked"]

\* HTMLOutput::to_file (with write_preamble) and HTMLOutput::into_buffer
write_preamble == <<Tok("preamble", <<>>), Tok("code_open", <<>>)>>
to_file == [writer |-> write_preamble, tag_stack |-> <<>>, tooltip |-> TooltipNone,
            tooltip_depth |-> 0, root |-> TRUE, status |-> "ok"]
into_buffer == [writer |-> <<>>, tag_stack |-> <<>>, tooltip |-> TooltipNone,
                tooltip_depth |-> 0, root |-> FALSE, status |-> "ok"]

open_tag(o, tag) ==
    [o EXCEPT !.writer = @ \o tag_open(tag),
              !.tag_stack = Append(@, tag)]

close_tag(o) ==
    IF o.tag_stack = <<>> THEN Panic(o)
    ELSE [o EXCEPT !.tag_stack = SubSeq(@, 1, Len(@) - 1),
                   !.writer = @ \o tag_close(o.tag_stack[Len(o.tag_stack)])]

\* An open-tooltip that overwrites the pending caption.
tooltip_html_overwrite(o, s) ==
    LET d == [o EXCEPT !.tooltip_depth = @ + 1]
    IN IF o.tooltip.state = "Emitted" THEN Panic(d)
       ELSE [d EXCEPT !.tooltip = Pending(s)]

tooltip_html(o, s) ==
    LET d == [o EXCEPT !.tooltip_depth = @ + 1]
    IN CASE o.tooltip.state = "None" -> [d EXCEPT !.tooltip = Pending(s)]
         [] o.tooltip.state = "Pending" ->
              [d EXCEPT !.tooltip = Pending(o.tooltip.buf \o <<NL>> \o s)]
         [] OTHER -> Panic(d)

\* A close-tooltip without the assertion that the tooltip was emitted.
tooltip_end_unasserted(o) ==
    IF o.tooltip_depth = 0 THEN Panic(o)
    ELSE LET d == [o EXCEPT !.tooltip_depth = @ - 1]
         IN IF d.tooltip_depth = 0 THEN [d EXCEPT !.tooltip = TooltipNone] ELSE d

tooltip_end(o) ==
    IF o.tooltip # Emitted \/ o.tooltip_depth = 0 THEN Panic(o)
    ELSE LET d == [o EXCEPT !.tooltip_depth = @ - 1]
         IN IF d.tooltip_depth = 0 THEN [d EXCEPT !.tooltip = TooltipNone] ELSE d

\* A write that lets later fragments through once the tooltip is emitted.
write_text_oneline_lenient(o, s) ==
    CASE o.tooltip.state = "None" -> [o EXCEPT !.writer = Append(@, Tok("text", s))]
      [] o.tooltip.state = "Pending" ->
           [o EXCEPT !.writer = @ \o <<Tok("open", <<"has-tooltip">>),
                                        Tok("plain", s),
                                        Tok("open", <<"tooltip">>),
                                        Tok("raw", o.tooltip.buf),
                                        Tok("close", <<>>),
                                        Tok("close", <<>>)>>,
                     !.tooltip = Emitted]
      [] OTHER -> [o EXCEPT !.writer = Append(@, Tok("plain", s))]

write_text_oneline(o, s) ==
    CASE o.tooltip.state = "None" -> [o EXCEPT !.writer = Append(@, Tok("text", s))]
      [] o.tooltip.state = "Pending" ->
           [o EXCEPT !.writer = @ \o <<Tok("open", <<"has-tooltip">>),
                                        Tok("plain", s),
                                        Tok("open", <<"tooltip">>),
                                        Tok("raw", o.tooltip.buf),
                                        Tok("close", <<>>),
                                        Tok("close", <<>>)>>,
                     !.tooltip = Emitted]
      [] OTHER -> Panic(o)

\* A line break that reopens the tags innermost first.
handle_newline_reversed(o) ==
    IF o.tooltip # TooltipNone THEN Panic(o)
    ELSE IF o.root
    THEN [o EXCEPT !.writer =
              @ \o Concat([i \in 1..Len(o.tag_stack) |->
                              tag_close(Reverse(o.tag_stack)[i])])
                \o <<Tok("code_close", <<>>), Tok("code_open", <<>>)>>
                \o Concat([i \in 1..Len(o.tag_stack) |->
                              tag_open(Reverse(o.tag_stack)[i])])]
    ELSE [o EXCEPT !.writer = Append(@, Tok("raw", <<NL>>))]

\* A line break that does not look at the tooltip.
handle_newline_unchecked(o) ==
    IF o.root
    THEN [o EXCEPT !.writer =
              @ \o Concat([i \in 1..Len(o.tag_stack) |->
                              tag_close(Reverse(o.tag_stack)[i])])
                \o <<Tok("code_close", <<>>), Tok("code_open", <<>>)>>
                \o Concat([i \in 1..Len(o.tag_stack) |-> tag_open(o.tag_stack[i])])]
    ELSE [o EXCEPT !.writer = Append(@, Tok("raw", <<NL>>))]

handle_newline(o) ==
    IF o.tooltip # TooltipNone THEN Panic(o)
    ELSE IF o.root
    THEN [o EXCEPT !.writer =
              @ \o Concat([i \in 1..Len(o.tag_stack) |->
                              tag_close(Reverse(o.tag_stack)[i])])
                \o <<Tok("code_close", <<>>), Tok("code_open", <<>>)>>
                \o Concat([i \in 1..Len(o.tag_stack) |-> tag_open(o.tag_stack[i])])]
    ELSE [o EXCEPT !.writer = Append(@, Tok("raw", <<NL>>))]

\* The loop of write_text over the lines after the first; a panic ends it.
RECURSIVE write_lines(_, _)
write_lines(o, ls) ==
    IF ls = <<>> \/ o.status = "panicked" THEN o
    ELSE LET n == handle_newline(o)
         IN IF n.status = "panicked" THEN n
            ELSE write_lines(write_text_oneline(n, Head(ls)), Tail(ls))

write_text(o, s) ==
    LET ls == split(s)
    IN write_lines(write_text_oneline(o, Head(ls)), Tail(ls))

(***************************************************************************)
(* The passes as calls on one forest.                                      *)
(***************************************************************************)
\* parse has not been called.
NotParsed == [ok |-> FALSE, nodes |-> <<>>, err |-> "NotParsed", tag |-> <<>>]
NoParse ==
    /\ source = <<>>
    /\ yxml = <<>>
    /\ result = NotParsed

\* No HTMLOutput exists: main.rs does not create one.
NoOutput ==
    /\ writer = <<>>
    /\ tag_stack = <<>>
    /\ tooltip = TooltipNone
    /\ tooltip_depth = 0
    /\ root = FALSE
    /\ status = "ok"
    /\ trace = <<>>

Init ==
    /\ IsInputForest(tree)
    /\ before = tree
    /\ hist = <<>>
    /\ ret = FALSE
    /\ lines = <<>>
    /\ NoOutput
    /\ NoParse

\* main.rs ends with split_lines: no pass is called after it.
Split == hist # <<>> /\ hist[Len(hist)] = "split_lines"
CanPass == ~Split /\ Len(hist) < MaxCalls

TrimEmpty ==
    /\ CanPass
    /\ tree' = trim_empty(tree)
    /\ before' = tree
    /\ hist' = Append(hist, "trim_empty")
    /\ UNCHANGED <<ret, lines, out_vars, parse_vars>>

MergeTooltips ==
    /\ CanPass
    /\ LET r == merge_tooltips(tree, None)
       IN /\ tree' = r.tree
          /\ ret' = r.ret
    /\ before' = tree
    /\ hist' = Append(hist, "merge_tooltips")
    /\ UNCHANGED <<lines, out_vars, parse_vars>>

SplitLines ==
    /\ ~Split
    /\ lines' = split_lines(tree)
    /\ hist' = Append(hist, "split_lines")
    /\ UNCHANGED <<tree, before, ret, out_vars, parse_vars>>

Next == TrimEmpty \/ MergeTooltips \/ SplitLines

Spec == Init /\ [][Next]_vars

(***************************************************************************)
(* The calls on one HTMLOutput.                                            *)
(***************************************************************************)
EmitClasses == {<<"c">>, <<"d">>}
EmitTexts == {<<"x">>, <<"x", NL, "y">>, <<NL, "y", NL>>}

Op(name, arg) == [op |-> name, arg |-> arg]

NoForest ==
    /\ tree = <<>>
    /\ before = <<>>
    /\ hist = <<>>
    /\ ret = FALSE
    /\ lines = <<>>

Constructed(o) ==
    /\ writer = o.writer
    /\ tag_stack = o.tag_stack
    /\ tooltip = o.tooltip
    /\ tooltip_depth = o.tooltip_depth
    /\ root = o.root
    /\ status = o.status
    /\ trace = <<>>

InitEmitter ==
    /\ NoForest
    /\ NoParse
    /\ \/ Constructed(to_file)
       \/ Constructed(into_buffer)

\* A call returned (or panicked) leaving the HTMLOutput as o.
Called(call, o) ==
    /\ writer' = o.writer
    /\ tag_stack' = o.tag_stack
    /\ tooltip' = o.tooltip
    /\ tooltip_depth' = o.tooltip_depth
    /\ root' = o.root
    /\ status' = o.status
    /\ trace' = Append(trace, call)
    /\ UNCHANGED <<ir_vars, parse_vars>>

CanCall == status = "ok" /\ Len(trace) < MaxOps

OpenTag == CanCall /\ \E tag \in EmitClasses :
              Called(Op("open_tag", tag), open_tag(Self, tag))
CloseTag == CanCall /\ Called(Op("close_tag", <<>>), close_tag(Self))
TooltipHtml == CanCall /\ \E s \in Captions :
                  Called(Op("tooltip_html", s), tooltip_html(Self, s))
TooltipEnd == CanCall /\ Called(Op("tooltip_end", <<>>), tooltip_end(Self))
WriteText == CanCall /\ \E s \in EmitTexts :
                Called(Op("write_text", s), write_text(Self, s))

NextEmitter == OpenTag \/ CloseTag \/ TooltipHtml \/ TooltipEnd \/ WriteText

SpecEmitter == InitEmitter /\ [][NextEmitter]_vars

(***************************************************************************)
(* Properties of the passes (checked under Spec).                          *)
(***************************************************************************)
Last(q) == q[Len(q)]

RECURSIVE ContainsTooltip(_)
ContainsTooltip(f) ==
    \E i \in 1..Len(f) : f[i].type = "Tooltip" \/ ContainsTooltip(f[i].children)

\* merge_tooltips was called, with no accumulator, on the forest as built.
MergedOnly == hist = <<"merge_tooltips">>

\* The subtree under a Tooltip node once merged under that node's caption.
MergedUnder(n) == merge_tooltips(n.children, Some(n.s)).tree

\* What a top-level node of the input must have become.
MergedPiece(n) ==
    IF n.type = "Tooltip" /\ ContainsTooltip(MergedUnder(n))
    THEN MergedUnder(n)
    ELSE merge_tooltips(<<n>>, None).tree

TrimExampleStyled(A, B, c, x, y) ==
    before = <<Tooltip(A, <<SpanClass(c, <<Tooltip(B, <<Text(x)>>), Text(y)>>)>>)>>
    => tree = <<SpanClass(c, <<Tooltip(B, <<Text(x)>>), Text(y)>>)>>

TrimExampleFlat(A, B, x, y) ==
    before = <<Tooltip(A, <<Tooltip(B, <<Text(x)>>), Text(y)>>)>>
    => tree = <<Tooltip(B, <<Text(x)>>), Text(y)>>

\* C1: after merge_tooltips(tree, None), every Tooltip node whose merged
\* subtree still contains a Tooltip is gone and its (merged) children stand
\* in its place, in order; the Tooltips below it have the captions they get
\* when the upper Tooltip is not there at all; and the two examples of the
\* claim come out as stated.
C1_UpperTooltipReplacedByChildren ==
    MergedOnly =>
      /\ tree = Concat([i \in 1..Len(before) |-> MergedPiece(before[i])])
      /\ \A i \in 1..Len(before) :
            (before[i].type = "Tooltip" /\ ContainsTooltip(MergedUnder(before[i])))
            => MergedUnder(before[i]) = merge_tooltips(before[i].children, None).tree
      /\ \A A \in Captions, B \in Captions, x \in Texts, y \in Texts :
            /\ TrimExampleFlat(A, B, x, y)
            /\ \A c \in Classes : TrimExampleStyled(A, B, c, x, y)

C1_Witness ==
    /\ MergedOnly
    /\ before = <<Tooltip(<<"A">>,
                   <<SpanClass(<<"c">>, <<Tooltip(<<"B">>, <<Text(<<>>)>>),
                                          Text(<<"x", NL, "y">>)>>)>>)>>
    /\ tree = <<SpanClass(<<"c">>, <<Tooltip(<<"B">>, <<Text(<<>>)>>),
                                    Text(<<"x", NL, "y">>)>>)>>

\* The children of a Tooltip form a chain of single-child SpanClass nodes
\* ending in a Tooltip whose subtree holds no Tooltip.
RECURSIVE IsChainToTooltip(_)
IsChainToTooltip(ch) ==
    /\ Len(ch) = 1
    /\ \/ ch[1].type = "SpanClass" /\ IsChainToTooltip(ch[1].children)
       \/ ch[1].type = "Tooltip" /\ ~ContainsTooltip(ch[1].children)

RECURSIVE ChainCaption(_)
ChainCaption(ch) ==
    IF ch[1].type = "Tooltip" THEN ch[1].s ELSE ChainCaption(ch[1].children)

\* The chain with the inner Tooltip replaced by its children.
RECURSIVE ChainSpliced(_)
ChainSpliced(ch) ==
    IF ch[1].type = "Tooltip" THEN ch[1].children
    ELSE <<[ch[1] EXCEPT !.children = ChainSpliced(ch[1].children)]>>

IsMergeable(n) == n.type = "Tooltip" /\ IsChainToTooltip(n.children)
MergedNode(n) ==
    Tooltip(n.s \o <<NL>> \o ChainCaption(n.children), ChainSpliced(n.children))

\* C2: a Tooltip A whose only child, possibly under single-child SpanClass
\* wrappers, is a Tooltip B with no Tooltip below it becomes one Tooltip
\* captioned A, newline, B that keeps the wrappers and has B's children where
\* B was; B itself is gone.
C2_ChainMergesCaptions ==
    MergedOnly =>
      /\ (Len(before) = 1 /\ IsMergeable(before[1]))
            => tree = <<MergedNode(before[1])>> /\ ret
      /\ \A i \in 1..Len(before) :
            IsMergeable(before[i]) =>
              /\ Len(MergedPiece(before[i])) = 1
              /\ \E j \in 1..Len(tree) : tree[j] = MergedNode(before[i])

C2_Witness ==
    /\ MergedOnly
    /\ before = <<Tooltip(<<"A">>,
                   <<SpanClass(<<"c">>, <<Tooltip(<<"B">>,
                                                 <<Text(<<"x", NL, "y">>)>>)>>)>>)>>
    /\ tree = <<Tooltip(<<"A", NL, "B">>,
                  <<SpanClass(<<"c">>, <<Text(<<"x", NL, "y">>)>>)>>)>>

RECURSIVE NoEmptyTooltip(_)
NoEmptyTooltip(f) ==
    \A i \in 1..Len(f) :
        /\ f[i].type = "Tooltip" => f[i].children # <<>>
        /\ NoEmptyTooltip(f[i].children)

\* A Tooltip is reached from ch through single-child nodes only.
RECURSIVE ChainReachesTooltip(_)
ChainReachesTooltip(ch) ==
    /\ Len(ch) = 1
    /\ \/ ch[1].type = "Tooltip"
       \/ ch[1].type = "SpanClass" /\ ChainReachesTooltip(ch[1].children)

RECURSIVE NoChainedTooltip(_)
NoChainedTooltip(f) ==
    \A i \in 1..Len(f) :
        /\ f[i].type = "Tooltip" => ~ChainReachesTooltip(f[i].children)
        /\ NoChainedTooltip(f[i].children)

Canonical == hist = <<"trim_empty", "merge_tooltips">>

\* C3: after trim_empty then merge_tooltips(tree, None), no Tooltip has an
\* empty child list and no Tooltip reaches another Tooltip through an
\* unbroken chain of single-child nodes.
C3_CanonicalTooltips ==
    Canonical => NoEmptyTooltip(tree) /\ NoChainedTooltip(tree)

\* A pruned forest whose chain of two Tooltips was merged into one.
C3_Witness ==
    /\ Canonical
    /\ tree = <<Tooltip(<<"A", NL, "B">>, <<Text(<<"x", NL, "y">>)>>)>>
    /\ before = <<Tooltip(<<"A">>, <<Tooltip(<<"B">>, <<Text(<<"x", NL, "y">>)>>)>>)>>

RECURSIVE FlatText(_)
\* The Text leaves of a forest, in order, concatenated.
FlatText(f) ==
    IF f = <<>> THEN <<>>
    ELSE (IF Head(f).type = "Text" THEN Head(f).s ELSE FlatText(Head(f).children))
         \o FlatText(Tail(f))

NewlinesAt(s) == {i \in 1..Len(s) : s[i] = NL}
Newlines(s) == Cardinality(NewlinesAt(s))

RECURSIVE JoinLines(_)
JoinLines(ls) ==
    IF Len(ls) = 1 THEN ls[1] ELSE ls[1] \o <<NL>> \o JoinLines(Tail(ls))

\* C4: the text of the lines split_lines produced, joined with newlines, is
\* the text of the input forest, and there is one line more than there are
\* newlines in that text.
C4_SplitLinesFidelity ==
    Split =>
      /\ Len(lines) = Newlines(FlatText(tree)) + 1
      /\ JoinLines([i \in 1..Len(lines) |-> FlatText(lines[i])]) = FlatText(tree)

\* Three lines from two line breaks, one under a Tooltip; the SpanClass
\* without children has the one (empty) line split_lines always pushes.
C4_Witness ==
    /\ Split
    /\ tree = <<Tooltip(<<"A">>, <<Text(<<"x", NL, "y">>)>>),
                SpanClass(<<"c">>, <<>>),
                Text(<<"x", NL, "y">>)>>
    /\ lines = << <<Tooltip(<<"A">>, <<Text(<<"x">>)>>)>>,
                  <<Tooltip(<<"A">>, <<Text(<<"y">>)>>), SpanClass(<<"c">>, <<>>),
                    Text(<<"x">>)>>,
                  <<Text(<<"y">>)>> >>

\* The text between the j-th and the (j+1)-th newline of s (j from 0).
Piece(s, j) ==
    LET at(k) == CHOOSE p \in NewlinesAt(s) :
                     Cardinality({q \in NewlinesAt(s) : q < p}) = k - 1
        from == IF j = 0 THEN 1 ELSE at(j) + 1
        to == IF j = Newlines(s) THEN Len(s) ELSE at(j + 1) - 1
    IN SubSeq(s, from, to)

\* What of forest f lies on its j-th line (j from 0): the nodes whose text
\* reaches that line, each cut down to it.
RECURSIVE LineOf(_, _)
LineOf(f, j) ==
    LET start(i) == Newlines(FlatText(SubSeq(f, 1, i - 1)))
        span(i) == Newlines(FlatText(<<f[i]>>))
        cut(i) == IF f[i].type = "Text" THEN Text(Piece(f[i].s, j - start(i)))
                  ELSE [f[i] EXCEPT !.children = LineOf(f[i].children, j - start(i))]
    IN Concat([i \in 1..Len(f) |->
                 IF start(i) <= j /\ j <= start(i) + span(i) THEN <<cut(i)>> ELSE <<>>])

RECURSIVE NoNewlineLeaf(_)
NoNewlineLeaf(f) ==
    \A i \in 1..Len(f) :
        IF f[i].type = "Text" THEN Newlines(f[i].s) = 0
        ELSE NoNewlineLeaf(f[i].children)

\* C5: no Text of the output holds a newline; a node whose text covers k
\* newlines has one replica, with its own tag, on each of the k + 1
\* consecutive lines its text reaches, holding what of its children lies on
\* that line, in order; a node without a newline is on one line, unchanged.
C5_SplitLinesStructure ==
    Split =>
      /\ \A j \in 1..Len(lines) : NoNewlineLeaf(lines[j])
      /\ Len(lines) = Newlines(FlatText(tree)) + 1
      /\ \A j \in 1..Len(lines) : lines[j] = LineOf(tree, j - 1)
      /\ \A i \in 1..Len(tree) :
            Newlines(FlatText(<<tree[i]>>)) = 0 =>
              Cardinality({j \in 1..Len(lines) :
                             \E k \in 1..Len(lines[j]) : lines[j][k] = tree[i]}) >= 1

\* The forest of the test of ir.rs, in small: a SpanClass over three lines.
C5_Witness ==
    /\ Split
    /\ tree = <<SpanClass(<<"c">>,
                 <<Text(<<"x", NL, "y">>),
                   Tooltip(<<"A">>, <<Text(<<"x", NL, "y">>)>>)>>)>>
    /\ lines = << <<SpanClass(<<"c">>, <<Text(<<"x">>)>>)>>,
                  <<SpanClass(<<"c">>, <<Text(<<"y">>),
                                         Tooltip(<<"A">>, <<Text(<<"x">>)>>)>>)>>,
                  <<SpanClass(<<"c">>, <<Tooltip(<<"A">>, <<Text(<<"y">>)>>)>>)>> >>

(***************************************************************************)
(* Properties of HTMLOutput (checked under SpecEmitter).                   *)
(***************************************************************************)
\* The step is a call of the named method.
Calls(name) == trace' # trace /\ Last(trace').op = name
Arg == Last(trace').arg

\* What was written between two line-container boundaries: the pieces of
\* the writer's tokens between the </code> tokens.
RECURSIVE Containers(_)
Containers(w) ==
    IF \A i \in 1..Len(w) : w[i].k # "code_close" THEN <<w>>
    ELSE LET i == CHOOSE j \in 1..Len(w) :
                    w[j].k = "code_close" /\ \A k \in 1..(j - 1) : w[k].k # "code_close"
         IN <<SubSeq(w, 1, i - 1)>> \o Containers(SubSeq(w, i + 1, Len(w)))

\* The classes of the spans still open after the tokens of w, outermost
\* first; <<"unbalanced">> once a </span> closes nothing.
RECURSIVE OpenSpans(_, _)
OpenSpans(w, open) ==
    IF w = <<>> THEN open
    ELSE CASE Head(w).k = "open" -> OpenSpans(Tail(w), Append(open, Head(w).s))
           [] Head(w).k = "close" ->
                IF open = <<>> THEN <<"unbalanced">>
                ELSE OpenSpans(Tail(w), SubSeq(open, 1, Len(open) - 1))
           [] OTHER -> OpenSpans(Tail(w), open)

\* Every finished line container is balanced and well nested, and in the
\* current one exactly the style regions of the stack are open.
LinesWellNested ==
    LET cs == Containers(writer)
    IN /\ \A i \in 1..(Len(cs) - 1) : OpenSpans(cs[i], <<>>) = <<>>
       /\ OpenSpans(cs[Len(cs)], <<>>) = tag_stack

Closing(stack) == [i \in 1..Len(stack) |-> Tok("close", <<>>)]
Opening(stack) == [i \in 1..Len(stack) |-> Tok("open", stack[i])]

\* What a line break writes with the style regions of stack open.
LineBreak(stack) ==
    Closing(stack) \o <<Tok("code_close", <<>>), Tok("code_open", <<>>)>>
                   \o Opening(stack)

\* A root write-text with no tooltip open: at each newline of the text the
\* regions are closed (one </span> each), the line container ends and a new
\* one starts, and the regions are reopened outermost first; the stack is as
\* it was.
LineBreakStep ==
    (Calls("write_text") /\ root /\ tooltip = TooltipNone)
    => /\ status' = "ok"
       /\ tag_stack' = tag_stack
       /\ writer' = writer
                    \o <<Tok("text", Piece(Arg, 0))>>
                    \o Concat([i \in 1..Newlines(Arg) |->
                                 LineBreak(tag_stack) \o <<Tok("text", Piece(Arg, i))>>])

\* C6: a line break of the root emitter with style regions t1..tn open and
\* no tooltip open closes tn..t1, ends the line container, opens a new one
\* and reopens t1..tn, leaving the stack unchanged; so every line container
\* is balanced and well nested once the open regions have been closed.
C6_LineBreakKeepsNesting ==
    /\ [](root => LinesWellNested)
    /\ [][LineBreakStep]_vars

C6_Witness ==
    /\ root /\ status = "ok" /\ tag_stack = <<>>
    /\ trace = <<Op("open_tag", <<"c">>), Op("open_tag", <<"d">>),
                 Op("write_text", <<"x", NL, "y">>),
                 Op("close_tag", <<>>), Op("close_tag", <<>>)>>
    /\ Len(Containers(writer)) = 2

\* C7 as claimed: once the tooltip is emitted, a further write-text succeeds
\* and writes its fragment unwrapped, the tooltip staying emitted.
C7_LaterFragmentsWritten ==
    [][(Calls("write_text") /\ tooltip = Emitted /\ Newlines(Arg) = 0)
       => /\ status' = "ok"
          /\ tooltip' = Emitted
          /\ Len(writer') = Len(writer) + 1
          /\ Last(writer').s = Arg]_vars

\* C7: once the tooltip is emitted, a further write-text before
\* close-tooltip panics; it writes nothing and the tooltip stays emitted.
C7_LaterFragmentsPanic ==
    [][(Calls("write_text") /\ tooltip = Emitted)
       => /\ status' = "panicked"
          /\ tooltip' = Emitted
          /\ writer' = writer
          /\ tag_stack' = tag_stack]_vars

C7_Witness ==
    /\ status = "panicked"
    /\ tooltip = Emitted
    /\ trace = <<Op("tooltip_html", <<"A">>), Op("write_text", <<"x">>),
                 Op("write_text", <<"x">>)>>

Wrapped(s, caption) ==
    <<Tok("open", <<"has-tooltip">>), Tok("plain", s), Tok("open", <<"tooltip">>),
      Tok("raw", caption), Tok("close", <<>>), Tok("close", <<>>)>>

\* What a fresh HTMLOutput has written.
Written0 == IF root THEN write_preamble ELSE <<>>

PendingAppends ==
    (Calls("tooltip_html") /\ tooltip.state = "Pending")
    => /\ status' = "ok"
       /\ tooltip' = Pending(tooltip.buf \o <<NL>> \o Arg)
       /\ writer' = writer

FirstWriteWraps ==
    (Calls("write_text") /\ tooltip.state = "Pending")
    => /\ tooltip' = Emitted
       /\ writer' = writer \o Wrapped(Piece(Arg, 0), tooltip.buf)

TwoTooltips(A, B, x) ==
    trace = <<Op("tooltip_html", A), Op("tooltip_html", B), Op("write_text", x),
              Op("tooltip_end", <<>>), Op("tooltip_end", <<>>)>>
    => /\ status = "ok"
       /\ tooltip = TooltipNone
       /\ writer = Written0 \o Wrapped(x, A \o <<NL>> \o B)

\* C8: open-tooltip while a caption is pending appends the new caption after
\* a newline; the first write-text while pending writes one hover container
\* around the fragment with the whole caption; so open A, open B, write x,
\* close, close ends without error, with the one container captioned
\* A, newline, B written and no tooltip left.
C8_CaptionsAccumulate ==
    /\ [](\A A \in Captions, B \in Captions : TwoTooltips(A, B, <<"x">>))
    /\ [][PendingAppends /\ FirstWriteWraps]_vars

C8_Witness ==
    /\ trace = <<Op("tooltip_html", <<"A">>), Op("tooltip_html", <<"B">>),
                 Op("write_text", <<"x">>),
                 Op("tooltip_end", <<>>), Op("tooltip_end", <<>>)>>
    /\ status = "ok"
    /\ tooltip = TooltipNone
    /\ ~root
    /\ writer = Wrapped(<<"x">>, <<"A", NL, "B">>)

TooltipStep ==
    /\ tooltip' # tooltip =>
          \/ tooltip.state = "None" /\ tooltip'.state = "Pending"
                /\ Calls("tooltip_html")
          \/ tooltip.state = "Pending" /\ tooltip'.state = "Pending"
                /\ Calls("tooltip_html")
          \/ tooltip.state = "Pending" /\ tooltip' = Emitted
                /\ Calls("write_text")
          \/ tooltip = Emitted /\ tooltip' = TooltipNone
                /\ Calls("tooltip_end")
    /\ (Calls("tooltip_html") /\ tooltip = Emitted)
          => status' = "panicked" /\ tooltip' = Emitted

\* C9: the tooltip changes only None -> Pending and Pending -> Pending (by
\* open-tooltip), Pending -> Emitted (by write-text) and Emitted -> None (by
\* close-tooltip); open-tooltip while emitted panics and leaves it emitted.
C9_TooltipStateMachine == [][TooltipStep]_vars

\* Once around the state machine and into Pending again.
C9_Witness ==
    /\ trace = <<Op("tooltip_html", <<"A">>), Op("write_text", <<"x">>),
                 Op("tooltip_end", <<>>), Op("tooltip_html", <<"B">>)>>
    /\ tooltip = Pending(<<"B">>)
    /\ status = "ok"

Boundaries(w) ==
    Cardinality({i \in 1..Len(w) :
                   w[i].k \in {"code_close", "code_open"} \/ w[i] = Tok("raw", <<NL>>)})

\* C10: with a tooltip open (pending or emitted), in a root or a nested
\* HTMLOutput, a write-text of a text with a newline panics and writes no
\* line-container boundary and no newline.
C10_NewlineInTooltipPanics ==
    [][(Calls("write_text") /\ tooltip.state # "None" /\ Newlines(Arg) > 0)
       => /\ status' = "panicked"
          /\ Boundaries(writer') = Boundaries(writer)]_vars

\* The first line was written in its hover container, then the call panicked.
C10_Witness ==
    /\ trace = <<Op("tooltip_html", <<"A">>), Op("write_text", <<"x", NL, "y">>)>>
    /\ status = "panicked"
    /\ writer = Written0 \o Wrapped(<<"x">>, <<"A">>)

(***************************************************************************)
(* write_nodes (ir.rs) and the writing of main.rs.  The writer of main.rs  *)
(* is a BufWriter over the output file: a write to it may fail, and the    *)
(* call then returns the error (the `?` of main.rs).                       *)
(***************************************************************************)
\* What was written, and whether the assertion of line 168 failed.
RECURSIVE write_nodes(_, _)
write_nodes(nodes, in_tooltip) ==
    IF nodes = <<>> THEN [out |-> <<>>, panicked |-> FALSE]
    ELSE
      LET node == Head(nodes)
          inner == write_nodes(node.children, in_tooltip \/ node.type = "Tooltip")
          first ==
            CASE node.type = "Text" ->
                   [out |-> <<Tok(IF in_tooltip THEN "plain" ELSE "text", node.s)>>,
                    panicked |-> FALSE]
              [] node.type = "Tooltip" ->
                   IF in_tooltip THEN [out |-> <<>>, panicked |-> TRUE]
                   ELSE [out |-> <<Tok("open", <<"has-tooltip">>)>> \o inner.out
                                 \o (IF inner.panicked THEN <<>>
                                      ELSE <<Tok("open", <<"tooltip">>),
                                             Tok("raw", node.s),
                                             Tok("close", <<>>), Tok("close", <<>>)>>),
                         panicked |-> inner.panicked]
              [] OTHER ->
                   [out |-> <<Tok("open", node.s)>> \o inner.out
                            \o (IF inner.panicked THEN <<>> ELSE <<Tok("close", <<>>)>>),
                    panicked |-> inner.panicked]
      IN IF first.panicked THEN first
         ELSE LET others == write_nodes(Tail(nodes), in_tooltip)
              IN [out |-> first.out \o others.out, panicked |-> others.panicked]

\* processed_ir has run on the forest.
Processed ==
    \/ hist = <<"trim_empty", "merge_tooltips">>
    \/ hist = <<"trim_empty", "merge_tooltips", "split_lines">>

\* The lines main.rs has written so far.
LinesDone == Len(trace) - 2

\* main.rs gave toks to the writer, of which the first k were written: all
\* of them, and main goes on (or panics, when the assertion failed), or
\* fewer, and main returns the error.
Wrote(step, toks, k, panicked) ==
    /\ writer' = writer \o SubSeq(toks, 1, k)
    /\ status' = IF k < Len(toks) THEN "error"
                 ELSE IF panicked THEN "panicked"
                 ELSE IF step = "epilogue" THEN "done" ELSE "ok"
    /\ trace' = Append(trace, Op(step, <<>>))
    /\ UNCHANGED <<tag_stack, tooltip, tooltip_depth, root, ir_vars, parse_vars>>

\* render_to_string: write_nodes on the forest as processed_ir left it, into
\* a buffer.
RenderToString ==
    /\ hist = <<"trim_empty", "merge_tooltips">>
    /\ trace = <<>> /\ status = "ok"
    /\ LET w == write_nodes(tree, FALSE)
       IN Wrote("render_to_string", w.out, Len(w.out), w.panicked)

\* File::create, which may fail.
CreateSink ==
    /\ hist = <<"trim_empty", "merge_tooltips", "split_lines">>
    /\ trace = <<>> /\ status = "ok"
    /\ \E k \in 0..1 : Wrote("create", <<Tok("created", <<>>)>>, k, FALSE)

WritePreamble ==
    /\ status = "ok"
    /\ trace = <<Op("create", <<>>)>>
    /\ \E k \in 0..1 : Wrote("preamble", <<Tok("preamble", <<>>)>>, k, FALSE)

\* One round of the loop over the lines.
WriteLine ==
    /\ status = "ok"
    /\ Len(trace) >= 2 /\ trace[1].op = "create"
    /\ LinesDone < Len(lines)
    /\ LET w == write_nodes(lines[LinesDone + 1], FALSE)
           toks == <<Tok("code_open", <<>>)>> \o w.out
                   \o (IF w.panicked THEN <<>> ELSE <<Tok("code_close", <<>>)>>)
       IN \E k \in 0..Len(toks) : Wrote("line", toks, k, w.panicked)

WriteEpilogue ==
    /\ status = "ok"
    /\ Len(trace) >= 2 /\ trace[1].op = "create"
    /\ LinesDone = Len(lines)
    /\ \E k \in 0..1 : Wrote("epilogue", <<Tok("epilogue", <<>>)>>, k, FALSE)

NextMain ==
    \/ TrimEmpty \/ MergeTooltips \/ SplitLines
    \/ RenderToString
    \/ CreateSink \/ WritePreamble \/ WriteLine \/ WriteEpilogue

SpecMain == Init /\ [][NextMain]_vars

(***************************************************************************)
(* Properties of the writing of main.rs (checked under SpecMain).          *)
(***************************************************************************)
Count(w, k) == Cardinality({i \in 1..Len(w) : w[i].k = k})

Exited == status \in {"done", "error", "panicked"}

\* C11: once the output file is created and the preamble written, the
\* closing boilerplate is written exactly once on every exit path: normal
\* completion, a panic, a write error in the middle of the document.
C11_EpilogueOnEveryExit ==
    (Exited /\ Count(writer, "preamble") = 1) => Count(writer, "epilogue") = 1

(***************************************************************************)
(* The YXML parser (yxml/src/lib.rs).  A string is a sequence of           *)
(* characters; "X" and "Y" stand for the delimiter bytes 5 and 6.  A Node  *)
(* is a record: s is the text of a Text and the name of a Tag, attrs is    *)
(* the HashMap of a Tag as the set of its <<key, value>> pairs.            *)
(***************************************************************************)
X == "X"
Y == "Y"

NodeText(s) == [type |-> "Text", s |-> s, attrs |-> {}, children |-> <<>>]
NodeTag(name, attrs, children) ==
    [type |-> "Tag", s |-> name, attrs |-> attrs, children |-> children]

\* ParseResult: Ok((val, rest)) and Err(err), tag being the name carried by
\* UnclosedTag.
Ok(val, rest) == [ok |-> TRUE, val |-> val, rest |-> rest, err |-> "", tag |-> <<>>]
Err(err, tag) == [ok |-> FALSE, val |-> <<>>, rest |-> <<>>, err |-> err, tag |-> tag]

\* The Result that parse returns.
ParseOk(nodes) == [ok |-> TRUE, nodes |-> nodes, err |-> "", tag |-> <<>>]
ParseErr(err, tag) == [ok |-> FALSE, nodes |-> <<>>, err |-> err, tag |-> tag]

\* str::find: the position of the first c of s, counted from 1; 0 is None.
find(s, c) ==
    IF \A i \in 1..Len(s) : s[i] # c THEN 0
    ELSE CHOOSE i \in 1..Len(s) : s[i] = c /\ \A j \in 1..(i - 1) : s[j] # c

\* The position of the last c of s; 0 when there is none.
rfind(s, c) ==
    IF \A i \in 1..Len(s) : s[i] # c THEN 0
    ELSE CHOOSE i \in 1..Len(s) : s[i] = c /\ \A j \in (i + 1)..Len(s) : s[j] # c

\* str::split(Y)
RECURSIVE split_Y(_)
split_Y(s) ==
    LET n == find(s, Y)
    IN IF n = 0 THEN <<s>>
       ELSE <<SubSeq(s, 1, n - 1)>> \o split_Y(SubSeq(s, n + 1, Len(s)))

\* An attribute cut at its last '='.
split_attr_last(attr) ==
    LET offset == rfind(attr, "=")
    IN [ok |-> offset # 0,
        key |-> SubSeq(attr, 1, offset - 1),
        value |-> SubSeq(attr, offset + 1, Len(attr))]

\* The closure of lines 80-83: the attribute cut at its first '='.
split_attr(attr) ==
    LET offset == find(attr, "=")
    IN [ok |-> offset # 0,
        key |-> SubSeq(attr, 1, offset - 1),
        value |-> SubSeq(attr, offset + 1, Len(attr))]

\* HashMap::insert
insert(map, key, value) == {p \in map : p[1] # key} \cup {<<key, value>>}

\* collect::<Result<HashMap, _>>: stops at the first attribute without '='.
RECURSIVE collect(_, _)
collect(attributes, map) ==
    IF attributes = <<>> THEN [ok |-> TRUE, map |-> map]
    ELSE LET a == split_attr(Head(attributes))
         IN IF ~a.ok THEN [ok |-> FALSE, map |-> {}]
            ELSE collect(Tail(attributes), insert(map, a.key, a.value))

RECURSIVE from_str(_)
RECURSIVE children_loop(_, _, _)
\* The loop of parse_children, with the children pushed so far.
children_loop(tag, input, children) ==
    IF input = <<>> THEN Err("UnclosedTag", tag)
    ELSE LET r == from_str(input)
         IN IF ~r.ok THEN r
            ELSE IF r.val.some
                 THEN children_loop(tag, r.rest, Append(children, r.val.val))
                 ELSE Ok(children, r.rest)

parse_children(tag, input) == children_loop(tag, input, <<>>)

\* Node::from_str
from_str(input) ==
    LET n == find(input, X)
    IN IF n = 1
       THEN LET end == find(Tail(input), X)
                attributes == SubSeq(Tail(input), 1, end - 1)
                rest == SubSeq(Tail(input), end + 1, Len(input) - 1)
                parts == split_Y(attributes)
                name == parts[2]
                attrs == collect(SubSeq(parts, 3, Len(parts)), {})
                inside == parse_children(name, rest)
            IN IF end = 0 THEN Err("NoClosingX", <<>>)
               ELSE IF attributes = <<Y>> THEN Ok(None, rest)
               ELSE IF parts[1] # <<>>
                    THEN Err("UnexpectedContentBeforeAttributes", <<>>)
               ELSE IF Len(parts) < 2 THEN Err("MissingName", <<>>)
               ELSE IF ~attrs.ok THEN Err("MalformedAttribute", <<>>)
               ELSE IF ~inside.ok THEN inside
               ELSE Ok(Some(NodeTag(name, attrs.map, inside.val)), inside.rest)
       ELSE IF n > 1
            THEN Ok(Some(NodeText(SubSeq(input, 1, n - 1))),
                    SubSeq(input, n, Len(input)))
            ELSE Ok(Some(NodeText(input)), <<>>)

\* The loop of parse, with the nodes pushed so far.
RECURSIVE parse_loop(_, _)
parse_loop(input, nodes) ==
    IF input = <<>> THEN ParseOk(nodes)
    ELSE LET r == from_str(input)
         IN IF ~r.ok THEN ParseErr(r.err, r.tag)
            ELSE IF ~r.val.some THEN ParseErr("UnmatchedClosingTag", <<>>)
            ELSE parse_loop(r.rest, Append(nodes, r.val.val))

\* A parse that drops a close marker met at top level.
parse_lenient(input) ==
    LET r == parse_loop(input, <<>>)
    IN IF r.err = "UnmatchedClosingTag" THEN ParseOk(<<>>) ELSE r

parse(input) == parse_loop(input, <<>>)

(***************************************************************************)
(* The parser on a serialized forest.  The inputs: every forest of at most *)
(* MaxWireNodes nodes over these texts, names and attribute maps, written  *)
(* in the wire format with the attributes of a Tag in either order.        *)
(***************************************************************************)
MaxWireNodes == 3

WireTexts == {<<>>, <<"t">>, <<X>>}
WireNames == {<<>>, <<"n">>, <<"n", Y>>}
WireAttrs ==
    { {},
      {<<(<<"a">>), (<<"v">>)>>},
      {<<(<<"a">>), (<<"v", "=", "w">>)>>},
      {<<(<<"a">>), (<<"v">>)>>, <<(<<"b">>), (<<"v">>)>>},
      {<<(<<"a", "=", "b">>), (<<"v">>)>>} }

\* <<forests of 0 nodes, ..., forests of n nodes>>
RECURSIVE WireForestsBySize(_)
WireForestsBySize(n) ==
    IF n = 0 THEN <<{<<>>}>>
    ELSE LET bySize == WireForestsBySize(n - 1)
             TreesOfSize(k) ==
                 (IF k = 1 THEN {NodeText(s) : s \in WireTexts} ELSE {})
                 \cup {NodeTag(name, attrs, ch) :
                         name \in WireNames, attrs \in WireAttrs, ch \in bySize[k]}
         IN Append(bySize,
                   UNION {{<<t>> \o f : t \in TreesOfSize(k),
                                        f \in bySize[n - k + 1]} : k \in 1..n})

\* The forests of fewer than MaxWireNodes nodes, by size.
SmallWireForests == WireForestsBySize(MaxWireNodes - 1)

\* f is a forest of at most MaxWireNodes nodes: a first tree and the rest.
IsWireForest(f) ==
    \/ f = <<>>
    \/ \E n \in 1..MaxWireNodes : \E k \in 1..n :
          \E rest \in SmallWireForests[n - k + 1] :
            \/ k = 1 /\ \E s \in WireTexts : f = <<NodeText(s)>> \o rest
            \/ \E ch \in SmallWireForests[k] :
                  \E name \in WireNames, attrs \in WireAttrs :
                    f = <<NodeTag(name, attrs, ch)>> \o rest

\* The pairs of a map, one after the other.
RECURSIVE SeqOf(_)
SeqOf(map) ==
    IF map = {} THEN <<>>
    ELSE LET p == CHOOSE q \in map : TRUE IN <<p>> \o SeqOf(map \ {p})

\* The wire format: open marker X Y name (Y key=value)* X, close marker
\* X Y X, a Text verbatim.
RECURSIVE serialize(_, _)
serialize(forest, rev) ==
    IF forest = <<>> THEN <<>>
    ELSE LET node == Head(forest)
             order == IF rev THEN Reverse(SeqOf(node.attrs)) ELSE SeqOf(node.attrs)
             written ==
                 IF node.type = "Text" THEN node.s
                 ELSE <<X, Y>> \o node.s
                      \o Concat([i \in 1..Len(order) |->
                                   <<Y>> \o order[i][1] \o <<"=">> \o order[i][2]])
                      \o <<X>> \o serialize(node.children, rev) \o <<X, Y, X>>
         IN written \o serialize(Tail(forest), rev)

NoPasses ==
    /\ tree = <<>> /\ before = <<>> /\ hist = <<>> /\ ret = FALSE /\ lines = <<>>

InitRoundTrip ==
    /\ IsWireForest(source)
    /\ \E rev \in BOOLEAN : yxml = serialize(source, rev)
    /\ result = NotParsed
    /\ NoPasses
    /\ NoOutput

\* main.rs:129: yxml::parse on the dump.
ParseDump ==
    /\ result = NotParsed
    /\ result' = parse(yxml)
    /\ UNCHANGED <<source, yxml, ir_vars, out_vars>>

NextParser == ParseDump

SpecRoundTrip == InitRoundTrip /\ [][NextParser]_vars

(***************************************************************************)
(* Properties of the parser on a serialized forest (SpecRoundTrip).        *)
(***************************************************************************)
Parsed == result # NotParsed

HasDelimiter(s) == \E i \in 1..Len(s) : s[i] \in {X, Y}

RECURSIVE TextsClean(_)
TextsClean(f) ==
    \A i \in 1..Len(f) :
        IF f[i].type = "Text" THEN ~HasDelimiter(f[i].s)
        ELSE TextsClean(f[i].children)

\* C12 as stated: a forest in which no Text contains a delimiter byte,
\* serialized and parsed, comes back as Ok with the same forest.
C12_RoundTripAnyForest ==
    (Parsed /\ TextsClean(source)) => result = ParseOk(source)

\* The forests the wire format can carry: every Text is non-empty, holds no
\* delimiter byte and is not followed by another Text; no name, key or value
\* holds a delimiter byte, no key holds '='; no Tag has an empty name and no
\* attribute.
RECURSIVE Representable(_)
Representable(f) ==
    \A i \in 1..Len(f) :
        IF f[i].type = "Text"
        THEN /\ f[i].s # <<>>
             /\ ~HasDelimiter(f[i].s)
             /\ i < Len(f) => f[i + 1].type # "Text"
        ELSE /\ ~HasDelimiter(f[i].s)
             /\ \A p \in f[i].attrs :
                   /\ ~HasDelimiter(p[1]) /\ ~HasDelimiter(p[2])
                   /\ find(p[1], "=") = 0
             /\ ~(f[i].s = <<>> /\ f[i].attrs = {})
             /\ Representable(f[i].children)

\* C12 (amended): a representable forest, serialized with the attributes
\* of each Tag in any order and parsed, comes back as Ok with the same
\* forest.
C12_RoundTripRepresentable ==
    (Parsed /\ Representable(source)) => result = ParseOk(source)

\* A Tag with two attributes and a child, and a Tag whose attribute value
\* holds '=', came back.
C12_Witness ==
    /\ Parsed /\ Representable(source) /\ result = ParseOk(source)
    /\ Len(source) = 2
    /\ source[1].type = "Tag" /\ Cardinality(source[1].attrs) = 2
    /\ source[1].children # <<>>
    /\ source[2].type = "Tag"
    /\ \E p \in source[2].attrs : find(p[2], "=") # 0

(***************************************************************************)
(* The parser on a sequence of well-formed markers and texts.  The inputs: *)
(* every sequence of at most MaxTokens of these tokens, concatenated.      *)
(***************************************************************************)
MaxTokens == 5

OpenMarker(name, attr) ==
    [kind |-> "open", name |-> name,
     str |-> <<X, Y>> \o name \o (IF attr = <<>> THEN <<>> ELSE <<Y>> \o attr) \o <<X>>]
CloseMarker == [kind |-> "close", name |-> <<>>, str |-> <<X, Y, X>>]
TextToken(s) == [kind |-> "text", name |-> <<>>, str |-> s]

Tokens ==
    { OpenMarker(<<"n">>, <<>>),
      OpenMarker(<<"m">>, <<"a", "=", "v">>),
      OpenMarker(<<>>, <<"a", "=", "v">>),
      CloseMarker,
      TextToken(<<"t">>) }

InitParser ==
    /\ \E n \in 0..MaxTokens : source \in [1..n -> Tokens]
    /\ yxml = Concat([i \in 1..Len(source) |-> source[i].str])
    /\ result = NotParsed
    /\ NoPasses
    /\ NoOutput

SpecParser == InitParser /\ [][NextParser]_vars

(***************************************************************************)
(* Properties of the parser on well-formed markers (SpecParser).           *)
(***************************************************************************)
\* The tokens read from left to right with the names of the tags that are
\* open: the first close marker with no tag open, else the innermost tag
\* open at the end, else balanced.
RECURSIVE Balance(_, _)
Balance(tokens, open) ==
    IF tokens = <<>>
    THEN IF open = <<>> THEN [ok |-> TRUE, err |-> "", tag |-> <<>>]
         ELSE [ok |-> FALSE, err |-> "UnclosedTag", tag |-> open[Len(open)]]
    ELSE CASE Head(tokens).kind = "open" ->
                Balance(Tail(tokens), Append(open, Head(tokens).name))
           [] Head(tokens).kind = "close" ->
                IF open = <<>>
                THEN [ok |-> FALSE, err |-> "UnmatchedClosingTag", tag |-> <<>>]
                ELSE Balance(Tail(tokens), SubSeq(open, 1, Len(open) - 1))
           [] OTHER -> Balance(Tail(tokens), open)

\* C13: on well-formed markers, reading from left to right, parse returns
\* Ok exactly when every open marker has its close and no close marker
\* stands at top level; UnmatchedClosingTag at the first close marker with
\* no tag open, whatever was parsed before it; UnclosedTag with the name of
\* the innermost open tag when the input ends inside a tag; and an error
\* carries no nodes.
C13_BalanceErrors ==
    Parsed =>
        LET expected == Balance(source, <<>>)
        IN /\ result.ok = expected.ok
           /\ result.err = expected.err
           /\ result.tag = expected.tag
           /\ ~result.ok => result.nodes = <<>>

\* A complete node, then a close marker at top level; and the balanced case
\* of the same prefix is Ok.
C13_Witness ==
    /\ Parsed
    /\ source = <<OpenMarker(<<"n">>, <<>>), TextToken(<<"t">>), CloseMarker, CloseMarker>>
    /\ result = ParseErr("UnmatchedClosingTag", <<>>)
    /\ parse(SubSeq(yxml, 1, Len(yxml) - 3)).ok
    /\ parse(SubSeq(yxml, 1, Len(yxml) - 6)) = ParseErr("UnclosedTag", <<"n">>)

(***************************************************************************)
(* Further properties of the passes (checked under Spec).                  *)
(***************************************************************************)
\* C14: the forest left by trim_empty then merge_tooltips(_, None) is
\* unchanged by trim_empty and unchanged by merge_tooltips(_, None).
C14_CanonicalIdempotent ==
    Canonical => /\ trim_empty(tree) = tree
                 /\ merge_tooltips(tree, None).tree = tree

\* merge_tooltips changed the pruned forest, and neither pass changes it again.
C14_Witness ==
    /\ Canonical
    /\ before = <<Tooltip(<<"A">>,
                          <<SpanClass(<<"c">>,
                                      <<Tooltip(<<"B">>, <<Text(<<"x", NL, "y">>)>>)>>)>>)>>
    /\ tree = <<Tooltip(<<"A", NL, "B">>,
                        <<SpanClass(<<"c">>, <<Text(<<"x", NL, "y">>)>>)>>)>>
    /\ trim_empty(tree) = tree
    /\ merge_tooltips(tree, None).tree = tree

Accumulators == {None} \cup {Some(c) : c \in Captions}

\* C15: merge_tooltips, called on a forest with or without an accumulator,
\* returns true exactly when the forest holds a Tooltip after the call.
C15_ReturnsWhetherTooltipRemains ==
    /\ (hist # <<>> /\ Last(hist) = "merge_tooltips") => (ret <=> ContainsTooltip(tree))
    /\ \A acc \in Accumulators :
          LET r == merge_tooltips(tree, acc)
          IN r.ret <=> ContainsTooltip(r.tree)

\* The call at top level returned true for a Tooltip that stays, while the
\* call on its children, which absorbed the inner Tooltip, returned false.
C15_Witness ==
    /\ MergedOnly
    /\ before = <<Tooltip(<<"A">>, <<SpanClass(<<"c">>, <<Tooltip(<<"B">>, <<Text(<<>>)>>)>>)>>),
                 Text(<<>>)>>
    /\ ret /\ ContainsTooltip(tree)
    /\ LET r == merge_tooltips(before[1].children, Some(<<"A">>))
       IN ~r.ret /\ ~ContainsTooltip(r.tree)

(***************************************************************************)
(* The assertion of write_nodes (checked under SpecMain).                  *)
(***************************************************************************)
RECURSIVE NoNestedTooltip(_)
NoNestedTooltip(f) ==
    \A i \in 1..Len(f) :
        /\ f[i].type = "Tooltip" => ~ContainsTooltip(f[i].children)
        /\ NoNestedTooltip(f[i].children)

\* merge_tooltips was the last pass before the current one.
AfterMerge(h) == h # <<>> /\ Last(h) = "merge_tooltips"

\* C16: after merge_tooltips(_, None), on a pruned forest or not, no Tooltip
\* has a Tooltip below it; the lines of split_lines keep this; and
\* write_nodes, on the output of processed_ir or on its lines, never fails
\* its assertion.
C16_AssertionUnreachable ==
    /\ AfterMerge(hist) => NoNestedTooltip(tree)
    /\ (Split /\ AfterMerge(SubSeq(hist, 1, Len(hist) - 1))) =>
          \A i \in 1..Len(lines) : NoNestedTooltip(lines[i])
    /\ Processed =>
          /\ ~write_nodes(tree, FALSE).panicked
          /\ \A i \in 1..Len(lines) : ~write_nodes(lines[i], FALSE).panicked
    /\ status # "panicked"

\* A Tooltip that held another Tooltip and a text of two lines: main.rs
\* wrote the document to its end, a tooltip on each line.
C16_Witness ==
    /\ status = "done"
    /\ before = <<Tooltip(<<"A">>, <<Tooltip(<<"B">>, <<Text(<<"x", NL, "y">>)>>),
                                    Text(<<"x", NL, "y">>)>>)>>
    /\ Len(lines) = 3
    /\ Count(writer, "raw") = 2

====
